---------------------------- MODULE Spec2Model ----------------------------
(***************************************************************************)
(* SCP forwarder of ssh-mitm (ssh_proxy_server/forwarders/scp.py).         *)
(*                                                                         *)
(* Spec       : SCPBaseForwarder.forward() running against two channels    *)
(*              whose remote peers and whose owner (session.running) act   *)
(*              concurrently.                                              *)
(* SpecSend   : SCPBaseForwarder.sendall() applied to bounded inputs.      *)
(* SpecClose  : SCPBaseForwarder.close_session() called repeatedly on two  *)
(*              channels whose peers act concurrently.                     *)
(*                                                                         *)
(* Bytes are numbered per stream (the i-th byte a peer produces on a       *)
(* stream is the number i), so that loss, repetition and reordering are    *)
(* all visible in what the opposite channel accepted.                      *)
(***************************************************************************)
EXTENDS Integers, Sequences, FiniteSets, TLC

\* ------------------------------------------------------------------ bounds
\* total number of bytes the two peers produce over all four streams
MaxBytes == 3
\* longest buffer handed to sendall in SpecSend
MaxLen == 4
\* most bytes the send primitive accepts in one call in SpecSend
MaxAccept == 3
\* number of close_session calls per channel in SpecClose
MaxCalls == 2

\* records of one scp transfer in SpecProto
MaxRecords == 3
\* chunks the payload of one file arrives in, in SpecProto
MaxPayloadChunks == 2

\* read size of one recv (BaseForwarder.BUF_LEN, scaled down)
BUF_LEN == 2

\* exit statuses a remote command reports
Statuses == {0, 1}

\* session.scp_command values: sink, remote to remote, not scp
CmdSink == <<"s", "c", "p", " ", "-", "t", " ", "x">>
CmdR2R == <<"s", "c", "p", " ", "a", " ", "b">>
CmdOther == <<"l", "s">>
Commands == {CmdSink, CmdR2R, CmdOther}

VARIABLES
    scp_command,    \* session.scp_command
    has_channel,    \* session.scp_channel is not None
    running,        \* session.running
    pc,             \* position of forward()
    branch,         \* the branch of the multiplex loop that left it
    cli,            \* session.scp_channel (client side)
    srv,            \* self.server_channel (server side)
    sa_in,          \* SpecSend: arguments of sendall
    sa_out,         \* SpecSend: result of sendall and the calls it made
    cs_calls,       \* SpecClose: close_session calls made so far, per channel
    fwd,            \* the SCPForwarder instance (fields set by __init__)
    last,           \* SpecScp: the latest handle_traffic call and its outcome
    drv             \* SpecProto: where the scp peers are in the protocol

vars == <<scp_command, has_channel, running, pc, branch, cli, srv,
          sa_in, sa_out, cs_calls, fwd, last, drv>>

\* ---------------------------------------------------------------- helpers
Min(a, b) == IF a < b THEN a ELSE b

\* <<1, 2, ..., n>>
UpTo(n) == [i \in 1..n |-> i]

\* bytes.startswith(prefix)
startswith(s, prefix) ==
    /\ Len(s) >= Len(prefix)
    /\ SubSeq(s, 1, Len(prefix)) = prefix

\* bytes.find(sub) != -1
found(s, sub) ==
    \E i \in 1..Len(s) :
        /\ i + Len(sub) - 1 <= Len(s)
        /\ SubSeq(s, i, i + Len(sub) - 1) = sub

\* ---------------------------------------------------------------- channel
\* A paramiko channel as forward(), sendall() and close_session() see it.
\*   closed, eof_received   the attributes close_session reads
\*   status_ready, status   exit_status_ready() / recv_exit_status()
\*   in_buf, in_err         bytes received from the peer, not read yet
\*   made_in, made_err      bytes the peer has produced so far
\*   out, out_err           bytes the send primitives accepted
\*   msgs                   control messages and calls, in order
NewChannel ==
    [closed |-> FALSE, eof_received |-> FALSE,
     status_ready |-> FALSE, status |-> -1,
     in_buf |-> <<>>, in_err |-> <<>>, made_in |-> 0, made_err |-> 0,
     out |-> <<>>, out_err |-> <<>>, msgs |-> <<>>]

\* BaseForwarder._closed(channel)
_closed(channel) == channel.closed

\* channel.recv(n) / channel.recv_stderr(n): at most n bytes of the buffer
recv(buf, n) == SubSeq(buf, 1, Min(n, Len(buf)))
after_recv(buf, n) == SubSeq(buf, Min(n, Len(buf)) + 1, Len(buf))

\* SCPBaseForwarder.handle_traffic / handle_error
handle_traffic(traffic, isclient) == traffic
handle_error(traffic) == traffic

\* ---------------------------------------------------------------- sendall
\* The send primitive (channel.send / channel.send_stderr): willing to take
\* `room` bytes in this call; 0 means the channel is dead.
sendfunc(data, room) == Min(room, Len(data))

\* variant of sendall_loop: calls the primitive again after it returned 0
RECURSIVE sendall_loop_retry(_, _, _, _, _)
sendall_loop_retry(data, sent, oracle, i, calls) ==
    IF sent = Len(data)
    THEN [ret |-> sent, calls |-> calls]
    ELSE LET arg == SubSeq(data, sent + 1, Len(data))
             newsent == sendfunc(arg, oracle[i])
             now == Append(calls, [arg |-> arg, n |-> newsent])
         IN  IF newsent = 0 /\ i = Len(oracle)
             THEN [ret |-> 0, calls |-> now]
             ELSE sendall_loop_retry(data, sent + newsent, oracle, i + 1, now)

\* variant of sendall_loop: hands the whole buffer to every call
RECURSIVE sendall_loop_resend(_, _, _, _, _)
sendall_loop_resend(data, sent, oracle, i, calls) ==
    IF sent >= Len(data)
    THEN [ret |-> sent, calls |-> calls]
    ELSE LET arg == data
             newsent == sendfunc(arg, oracle[i])
             now == Append(calls, [arg |-> arg, n |-> newsent])
         IN  IF newsent = 0
             THEN [ret |-> 0, calls |-> now]
             ELSE sendall_loop_resend(data, sent + newsent, oracle, i + 1, now)

\* variant of sendall_loop: reports the bytes sent so far when the
\* primitive returns 0
RECURSIVE sendall_loop_partial(_, _, _, _, _)
sendall_loop_partial(data, sent, oracle, i, calls) ==
    IF sent = Len(data)
    THEN [ret |-> sent, calls |-> calls]
    ELSE LET arg == SubSeq(data, sent + 1, Len(data))
             newsent == sendfunc(arg, oracle[i])
             now == Append(calls, [arg |-> arg, n |-> newsent])
         IN  IF newsent = 0
             THEN [ret |-> sent, calls |-> now]
             ELSE sendall_loop_partial(data, sent + newsent, oracle, i + 1, now)

\* the while loop of sendall; `oracle[i]` is the room of the i-th call and
\* `calls` collects <<argument, result>> of every call of the primitive
RECURSIVE sendall_loop(_, _, _, _, _)
sendall_loop(data, sent, oracle, i, calls) ==
    IF sent = Len(data)
    THEN [ret |-> sent, calls |-> calls]
    ELSE LET arg == SubSeq(data, sent + 1, Len(data))
             newsent == sendfunc(arg, oracle[i])
             now == Append(calls, [arg |-> arg, n |-> newsent])
         IN  IF newsent = 0
             THEN [ret |-> 0, calls |-> now]
             ELSE sendall_loop(data, sent + newsent, oracle, i + 1, now)

\* variant of sendall: does not look at the exit status of the destination
sendall_unchecked(exit_status_ready, data, oracle) ==
    IF data = <<>>
    THEN [ret |-> 0, calls |-> <<>>]
    ELSE sendall_loop(data, 0, oracle, 1, <<>>)

\* lines 103-115
sendall(exit_status_ready, data, oracle) ==
    IF data = <<>>
    THEN [ret |-> 0, calls |-> <<>>]
    ELSE IF exit_status_ready
         THEN [ret |-> 0, calls |-> <<>>]
         ELSE sendall_loop(data, 0, oracle, 1, <<>>)

\* the bytes the channel took in a series of calls of the primitive
RECURSIVE Accepted(_)
Accepted(calls) ==
    IF calls = <<>> THEN <<>>
    ELSE SubSeq(Head(calls).arg, 1, Head(calls).n) \o Accepted(Tail(calls))

\* the behaviours of the primitive over the calls one buffer can need
Oracles(len, room) == [1..len -> 0..room]
\* in forward(): one buffer of at most BUF_LEN bytes; the primitive is not
\* reached when there is nothing to send or the destination has finished
OraclesFor(buf, dest) ==
    IF buf = <<>> \/ dest.status_ready
    THEN {<<>>}
    ELSE Oracles(Len(recv(buf, BUF_LEN)), Len(recv(buf, BUF_LEN)))

\* ---------------------------------------------------------- close_session
\* What a channel puts on the wire or does to the transport, in order.
\* (message type, request name, want-reply flag of a request, argument)
Msg(type, request, arg) ==
    [type |-> type, request |-> request, want_reply |-> FALSE, arg |-> arg]
MSG_EOF == Msg("CHANNEL_EOF", "", 0)
MSG_EOW == Msg("CHANNEL_REQUEST", "eow@openssh.com", 0)
MSG_CLOSE == Msg("CHANNEL_CLOSE", "", 0)
MSG_EXIT(status) == Msg("CHANNEL_REQUEST", "exit-status", status)
EV_UNLINK == Msg("_unlink", "", 0)
EV_SUPER == Msg("super.close_session", "", 0)
EV_CLOSE == Msg("close", "", 0)
EV_EXEC == Msg("exec_command", "", 0)

\* channel.transport._send_user_message(message)
_send_user_message(channel, message) ==
    [channel EXCEPT !.msgs = Append(@, message)]

\* BaseForwarder.close_session(channel): session-level bookkeeping that
\* accepts an already closed channel
super_close_session(channel) ==
    [channel EXCEPT !.msgs = Append(@, EV_SUPER)]

\* channel._unlink(): marks the channel closed and drops it from the
\* transport's channel table
_unlink(channel) ==
    IF channel.closed THEN channel
    ELSE [channel EXCEPT !.closed = TRUE, !.msgs = Append(@, EV_UNLINK)]

\* variant of close_session: detaches the channel before CLOSE is sent
close_session_early_unlink(channel) ==
    IF channel.closed
    THEN channel
    ELSE LET c1 == IF ~channel.eof_received
                   THEN _send_user_message(
                            _send_user_message(channel, MSG_EOF), MSG_EOW)
                   ELSE channel
             c2 == [c1 EXCEPT !.msgs = Append(@, EV_UNLINK)]
             c3 == _send_user_message(c2, MSG_CLOSE)
         IN  super_close_session([c3 EXCEPT !.closed = TRUE])

\* variant of close_session: no early return on a closed channel
close_session_unguarded(channel) ==
    LET c1 == IF ~channel.eof_received
              THEN _send_user_message(
                       _send_user_message(channel, MSG_EOF), MSG_EOW)
              ELSE channel
        c2 == _send_user_message(c1, MSG_CLOSE)
    IN  super_close_session(_unlink(c2))

\* lines 118-144
close_session(channel) ==
    IF channel.closed
    THEN channel
    ELSE LET c1 == IF ~channel.eof_received
                   THEN _send_user_message(
                            _send_user_message(channel, MSG_EOF), MSG_EOW)
                   ELSE channel
             c2 == _send_user_message(c1, MSG_CLOSE)
         IN  super_close_session(_unlink(c2))

\* channel.send_exit_status(status)
send_exit_status(channel, status) ==
    _send_user_message(channel, MSG_EXIT(status))

\* channel.close()
close(channel) ==
    IF channel.closed THEN channel
    ELSE [channel EXCEPT !.closed = TRUE, !.msgs = Append(@, EV_CLOSE)]

\* ----------------------------------------------------------- SCPForwarder
\* Chunks are sequences of one-character strings; "NUL" is the byte 0x00 and
\* "xFF" a byte that is not valid UTF-8.
LF == "\n"
Octal == {"0", "1", "2", "3", "4", "5", "6", "7"}
Digit == Octal \cup {"8", "9"}
Whitespace == {" ", "\t", LF}
InvalidUtf8 == {"xFF"}

\* traffic.decode('utf-8') succeeds
decodable(traffic) == \A i \in 1..Len(traffic) : traffic[i] \notin InvalidUtf8

DigitVal(c) ==
    CASE c = "0" -> 0 [] c = "1" -> 1 [] c = "2" -> 2 [] c = "3" -> 3
      [] c = "4" -> 4 [] c = "5" -> 5 [] c = "6" -> 6 [] c = "7" -> 7
      [] c = "8" -> 8 [] c = "9" -> 9

\* int(text) for a text of decimal digits
RECURSIVE int(_)
int(text) ==
    IF text = <<>> THEN 0
    ELSE 10 * int(SubSeq(text, 1, Len(text) - 1)) + DigitVal(text[Len(text)])

NoMatch == [matched |-> FALSE, g1 |-> "", g2 |-> <<>>, g3 |-> <<>>, g4 |-> <<>>]

\* re.match(r"([CD])([0-7]{4})\s([0-9]+)\s(.*)\n", command): anchored at the
\* start only; [0-9]+ is greedy and must be followed by whitespace; (.*)
\* takes everything up to the first newline after that
match_c_command(command) ==
    LET n == Len(command)
    IN  IF ~(/\ n >= 7
             /\ command[1] \in {"C", "D"}
             /\ \A i \in 2..5 : command[i] \in Octal
             /\ command[6] \in Whitespace
             /\ command[7] \in Digit)
        THEN NoMatch
        ELSE LET e == CHOOSE j \in 7..n :
                          /\ \A i \in 7..j : command[i] \in Digit
                          /\ (j = n \/ command[j + 1] \notin Digit)
                 p == e + 2
                 ends == {q \in p..n : command[q] = LF}
             IN  IF ~(e + 1 <= n /\ command[e + 1] \in Whitespace)
                    \/ ends = {}
                 THEN NoMatch
                 ELSE LET q == CHOOSE x \in ends : \A y \in ends : x <= y
                      IN  [matched |-> TRUE,
                           g1 |-> command[1],
                           g2 |-> SubSeq(command, 2, 5),
                           g3 |-> SubSeq(command, 7, e),
                           g4 |-> SubSeq(command, p, q - 1)]

\* SCPForwarder.__init__ (file_command and file_mode start as None)
NewForwarder ==
    [await_response |-> FALSE, bytes_remaining |-> 0, bytes_to_write |-> 0,
     file_command |-> "None", file_mode |-> <<>>, file_size |-> 0,
     file_name |-> <<>>, got_c_command |-> FALSE]

\* outcome of a hook: the instance afterwards, the bytes returned, and
\* whether an exception left the hook instead
Returns(f, traffic) == [fwd |-> f, out |-> traffic, raised |-> FALSE]
Raises(f) == [fwd |-> f, out |-> <<>>, raised |-> TRUE]

\* variant of handle_command: records the size in file_size only
handle_command_keep_remaining(f, traffic) ==
    LET f0 == [f EXCEPT !.got_c_command = FALSE]
    IN  IF ~decodable(traffic)
        THEN Raises(f0)
        ELSE LET m == match_c_command(traffic)
             IN  IF ~m.matched
                 THEN Returns(f0, traffic)
                 ELSE Returns([f0 EXCEPT !.got_c_command = TRUE,
                                         !.file_command = m.g1,
                                         !.file_mode = m.g2,
                                         !.file_size = int(m.g3),
                                         !.file_name = m.g4,
                                         !.await_response = TRUE],
                              traffic)

\* lines 166-192; the E and T branches (lines 173-178) only log
handle_command(f, traffic) ==
    LET f0 == [f EXCEPT !.got_c_command = FALSE]
    IN  IF ~decodable(traffic)
        THEN Raises(f0)
        ELSE LET m == match_c_command(traffic)
             IN  IF ~m.matched
                 THEN Returns(f0, traffic)
                 ELSE Returns([f0 EXCEPT !.got_c_command = TRUE,
                                         !.file_command = m.g1,
                                         !.file_mode = m.g2,
                                         !.bytes_remaining = int(m.g3),
                                         !.file_size = int(m.g3),
                                         !.file_name = m.g4,
                                         !.await_response = TRUE],
                              traffic)

\* lines 194-200
process_data(f, traffic) == Returns(f, traffic)
process_response(f, traffic) == Returns(f, traffic)

Hooked(r, hook) ==
    [fwd |-> r.fwd, out |-> r.out, raised |-> r.raised, hook |-> hook]

\* variant of SCP_handle_traffic: no test of the session command
SCP_handle_traffic_any_command(command, f, traffic, isclient) ==
    IF f.await_response
    THEN Hooked(process_response([f EXCEPT !.await_response = FALSE], traffic),
                "process_response")
    ELSE IF f.bytes_remaining = 0 /\ ~f.got_c_command
    THEN Hooked(handle_command(f, traffic), "handle_command")
    ELSE Hooked(process_data([f EXCEPT !.got_c_command = FALSE], traffic),
                "process_data")

\* variant of SCP_handle_traffic: leaves await_response set on a response
SCP_handle_traffic_keep_await(command, f, traffic, isclient) ==
    IF ~startswith(command, <<"s", "c", "p">>)
    THEN Hooked(Returns(f, traffic), "none")
    ELSE IF f.await_response
    THEN Hooked(process_response(f, traffic), "process_response")
    ELSE IF f.bytes_remaining = 0 /\ ~f.got_c_command
    THEN Hooked(handle_command(f, traffic), "handle_command")
    ELSE Hooked(process_data([f EXCEPT !.got_c_command = FALSE], traffic),
                "process_data")

\* variant of SCP_handle_traffic: passes chunks of the server side through
SCP_handle_traffic_client_only(command, f, traffic, isclient) ==
    IF ~startswith(command, <<"s", "c", "p">>) \/ ~isclient
    THEN Hooked(Returns(f, traffic), "none")
    ELSE IF f.await_response
    THEN Hooked(process_response([f EXCEPT !.await_response = FALSE], traffic),
                "process_response")
    ELSE IF f.bytes_remaining = 0 /\ ~f.got_c_command
    THEN Hooked(handle_command(f, traffic), "handle_command")
    ELSE Hooked(process_data([f EXCEPT !.got_c_command = FALSE], traffic),
                "process_data")

\* variant of SCP_handle_traffic: awaits a control line whenever no command
\* is pending, whatever bytes_remaining is
SCP_handle_traffic_flag_only(command, f, traffic, isclient) ==
    IF ~startswith(command, <<"s", "c", "p">>)
    THEN Hooked(Returns(f, traffic), "none")
    ELSE IF f.await_response
    THEN Hooked(process_response([f EXCEPT !.await_response = FALSE], traffic),
                "process_response")
    ELSE IF ~f.got_c_command
    THEN Hooked(handle_command(f, traffic), "handle_command")
    ELSE Hooked(process_data([f EXCEPT !.got_c_command = FALSE], traffic),
                "process_data")

\* SCPForwarder.handle_traffic, lines 202-216
SCP_handle_traffic(command, f, traffic, isclient) ==
    IF ~startswith(command, <<"s", "c", "p">>)
    THEN Hooked(Returns(f, traffic), "none")
    ELSE IF f.await_response
    THEN Hooked(process_response([f EXCEPT !.await_response = FALSE], traffic),
                "process_response")
    ELSE IF f.bytes_remaining = 0 /\ ~f.got_c_command
    THEN Hooked(handle_command(f, traffic), "handle_command")
    ELSE Hooked(process_data([f EXCEPT !.got_c_command = FALSE], traffic),
                "process_data")

\* no handle_traffic call yet
NoCall == [traffic |-> <<>>, isclient |-> FALSE, out |-> <<>>,
           raised |-> FALSE, hook |-> "none", n |-> 0]
\* phase: what the peers send next; records: control lines sent so far;
\* chunks: payload chunks of the current file sent so far; payload: whether
\* the current record is followed by file content
DrvIdle == [phase |-> "idle", records |-> 0, chunks |-> 0, payload |-> FALSE]

\* ---------------------------------------------------------------- forward
IsRemoteToRemote(command) ==
    /\ startswith(command, <<"s", "c", "p">>)
    /\ ~found(command, <<" ", "-", "t", " ">>)
    /\ ~found(command, <<" ", "-", "f", " ">>)

SendIdle == [data |-> <<>>, ready |-> FALSE, oracle |-> <<>>]
SendNone == [ret |-> -1, calls |-> <<>>]

Init ==
    /\ scp_command \in Commands
    /\ has_channel \in BOOLEAN
    /\ running = TRUE
    /\ pc = "start"
    /\ branch = "none"
    /\ cli = NewChannel
    /\ srv = NewChannel
    /\ sa_in = SendIdle
    /\ fwd = NewForwarder /\ last = NoCall /\ drv = DrvIdle
    /\ sa_out = SendNone
    /\ cs_calls = [c \in {"cli", "srv"} |-> 0]

\* lines 35-41: request the command on the server side
Start ==
    /\ pc = "start"
    /\ srv' = [srv EXCEPT !.msgs = Append(@, EV_EXEC)]
    /\ pc' = IF IsRemoteToRemote(scp_command) THEN "wait" ELSE "top"
    /\ UNCHANGED <<scp_command, has_channel, running, branch, cli,
                   fwd, last, drv, sa_in, sa_out, cs_calls>>

\* variant of WaitRemote: enters the multiplex loop without waiting
WaitRemote_NoWait ==
    /\ pc = "wait"
    /\ pc' = "top"
    /\ UNCHANGED <<scp_command, has_channel, running, branch, cli, srv,
                   fwd, last, drv, sa_in, sa_out, cs_calls>>

\* line 47: remote to remote copy, the test of the wait loop
WaitRemote ==
    /\ pc = "wait"
    /\ pc' = IF _closed(srv) THEN "top" ELSE "sleep"
    /\ UNCHANGED <<scp_command, has_channel, running, branch, cli, srv,
                   fwd, last, drv, sa_in, sa_out, cs_calls>>

\* line 48: time.sleep(1), then the test again
Sleep ==
    /\ pc = "sleep"
    /\ pc' = "wait"
    /\ UNCHANGED <<scp_command, has_channel, running, branch, cli, srv,
                   fwd, last, drv, sa_in, sa_out, cs_calls>>

\* lines 51-53: the loop condition and the channel check
LoopTop ==
    /\ pc = "top"
    /\ IF ~running
       THEN pc' = "done" /\ branch' = "stopped"
       ELSE IF ~has_channel
            THEN pc' = "raised" /\ branch' = "no_channel"
            ELSE pc' = "relay" /\ branch' = branch
    /\ UNCHANGED <<scp_command, has_channel, running, cli, srv,
                   fwd, last, drv, sa_in, sa_out, cs_calls>>

\* lines 55-70: one pass over the four streams
Relay ==
    /\ pc = "relay"
    /\ \E o1 \in OraclesFor(cli.in_buf, srv), o2 \in OraclesFor(srv.in_buf, cli),
          o3 \in OraclesFor(cli.in_err, srv), o4 \in OraclesFor(srv.in_err, cli) :
        LET b1 == handle_traffic(recv(cli.in_buf, BUF_LEN), TRUE)
            r1 == sendall(srv.status_ready, b1, o1)
            b2 == handle_traffic(recv(srv.in_buf, BUF_LEN), FALSE)
            r2 == sendall(cli.status_ready, b2, o2)
            b3 == handle_error(recv(cli.in_err, BUF_LEN))
            r3 == sendall(srv.status_ready, b3, o3)
            b4 == handle_error(recv(srv.in_err, BUF_LEN))
            r4 == sendall(cli.status_ready, b4, o4)
        IN  /\ cli' = [cli EXCEPT
                         !.in_buf = after_recv(@, BUF_LEN),
                         !.in_err = after_recv(@, BUF_LEN),
                         !.out = @ \o Accepted(r2.calls),
                         !.out_err = @ \o Accepted(r4.calls)]
            /\ srv' = [srv EXCEPT
                         !.in_buf = after_recv(@, BUF_LEN),
                         !.in_err = after_recv(@, BUF_LEN),
                         !.out = @ \o Accepted(r1.calls),
                         !.out_err = @ \o Accepted(r3.calls)]
    /\ pc' = "status"
    /\ UNCHANGED <<scp_command, has_channel, running, branch,
                   fwd, last, drv, sa_in, sa_out, cs_calls>>

\* variant of ServerStatusBranch: tears the channel down before the status
ServerStatusBranch_CloseFirst ==
    /\ cli' = send_exit_status(close_session(cli), srv.status)
    /\ srv' = srv
    /\ pc' = "done" /\ branch' = "server_status"

\* lines 72-80: the server side reports the exit status of the command
ServerStatusBranch ==
    /\ cli' = close_session(send_exit_status(cli, srv.status))
    /\ srv' = srv
    /\ pc' = "done" /\ branch' = "server_status"

\* variant of ClientStatusBranch: leaves without close_session
ClientStatusBranch_NoClose ==
    /\ cli' = cli
    /\ srv' = srv
    /\ pc' = "done" /\ branch' = "client_status"

\* lines 81-85: the client side reports an exit status
ClientStatusBranch ==
    /\ cli' = close_session(cli)
    /\ srv' = srv
    /\ pc' = "done" /\ branch' = "client_status"

\* variant of ClientClosedBranch: leaves the server side channel alone
ClientClosedBranch_KeepServer ==
    /\ srv' = srv
    /\ cli' = close_session(cli)
    /\ pc' = "done" /\ branch' = "client_closed"

\* lines 87-91: the client side is closed
ClientClosedBranch ==
    /\ srv' = close(srv)
    /\ cli' = close_session(cli)
    /\ pc' = "done" /\ branch' = "client_closed"

\* lines 92-95: the server side is closed
ServerClosedBranch ==
    /\ cli' = close_session(cli)
    /\ srv' = srv
    /\ pc' = "done" /\ branch' = "server_closed"

\* lines 72-97: exit status and closed checks, in the order of the code
CheckStatus ==
    /\ pc = "status"
    /\ IF srv.status_ready THEN ServerStatusBranch
       ELSE IF cli.status_ready THEN ClientStatusBranch
       ELSE IF _closed(cli) THEN ClientClosedBranch
       ELSE IF _closed(srv) THEN ServerClosedBranch
       ELSE /\ pc' = "top" /\ branch' = branch
            /\ UNCHANGED <<cli, srv>>
    /\ UNCHANGED <<scp_command, has_channel, running, fwd, last, drv, sa_in, sa_out, cs_calls>>

\* ------------------------------------------------------------ environment
Live == pc \notin {"done", "raised"}
Produced == cli.made_in + cli.made_err + srv.made_in + srv.made_err

\* a peer that has not finished can still produce data
CanProduce(channel) ==
    /\ Live
    /\ Produced < MaxBytes
    /\ ~channel.closed /\ ~channel.eof_received /\ ~channel.status_ready

EnvFrame == UNCHANGED <<scp_command, has_channel, running, pc, branch,
                        fwd, last, drv, sa_in, sa_out, cs_calls>>

ClientData ==
    /\ CanProduce(cli)
    /\ cli' = [cli EXCEPT !.made_in = @ + 1, !.in_buf = Append(@, cli.made_in + 1)]
    /\ UNCHANGED srv /\ EnvFrame

ClientErrData ==
    /\ CanProduce(cli)
    /\ cli' = [cli EXCEPT !.made_err = @ + 1, !.in_err = Append(@, cli.made_err + 1)]
    /\ UNCHANGED srv /\ EnvFrame

ServerData ==
    /\ CanProduce(srv)
    /\ srv' = [srv EXCEPT !.made_in = @ + 1, !.in_buf = Append(@, srv.made_in + 1)]
    /\ UNCHANGED cli /\ EnvFrame

ServerErrData ==
    /\ CanProduce(srv)
    /\ srv' = [srv EXCEPT !.made_err = @ + 1, !.in_err = Append(@, srv.made_err + 1)]
    /\ UNCHANGED cli /\ EnvFrame

\* the client sends EOF
ClientEOF ==
    /\ Live /\ ~cli.closed /\ ~cli.eof_received
    /\ cli' = [cli EXCEPT !.eof_received = TRUE]
    /\ UNCHANGED srv /\ EnvFrame

\* the remote command ends and the server reports its exit status
ServerExitStatus ==
    /\ Live /\ ~srv.closed /\ ~srv.status_ready
    /\ \E s \in Statuses :
        srv' = [srv EXCEPT !.status_ready = TRUE, !.status = s]
    /\ UNCHANGED cli /\ EnvFrame

\* the client side channel gets an exit status
ClientExitStatus ==
    /\ Live /\ ~cli.closed /\ ~cli.status_ready
    /\ \E s \in Statuses :
        cli' = [cli EXCEPT !.status_ready = TRUE, !.status = s]
    /\ UNCHANGED srv /\ EnvFrame

\* the peer closes the channel
ClientClose ==
    /\ Live /\ ~cli.closed
    /\ cli' = [cli EXCEPT !.closed = TRUE]
    /\ UNCHANGED srv /\ EnvFrame

ServerClose ==
    /\ Live /\ ~srv.closed
    /\ srv' = [srv EXCEPT !.closed = TRUE]
    /\ UNCHANGED cli /\ EnvFrame

\* the owner of the session clears session.running
StopRunning ==
    /\ Live /\ running
    /\ running' = FALSE
    /\ UNCHANGED <<scp_command, has_channel, pc, branch, cli, srv,
                   fwd, last, drv, sa_in, sa_out, cs_calls>>

Next ==
    \/ Start \/ WaitRemote \/ Sleep \/ LoopTop \/ Relay \/ CheckStatus
    \/ ClientData \/ ClientErrData \/ ServerData \/ ServerErrData
    \/ ClientEOF \/ ServerExitStatus \/ ClientExitStatus
    \/ ClientClose \/ ServerClose \/ StopRunning

Spec == Init /\ [][Next]_vars

\* ------------------------------------------------- properties of forward
BreakBranches == {"server_status", "client_status", "client_closed",
                  "server_closed"}

\* messages a channel got appended in a step
Emitted(old, new) == SubSeq(new.msgs, Len(old.msgs) + 1, Len(new.msgs))

IsExit(m) == m.type = "CHANNEL_REQUEST" /\ m.request = "exit-status"
NoExit(ms) == \A i \in 1..Len(ms) : ~IsExit(ms[i])

\* forward() has taken the step at lines 72-97
StatusStep == pc = "status" /\ pc' # pc

\* C1 as stated: whenever forward() has returned normally, both channels are
\* closed, whichever way the loop was left.
C1_BothClosedOnReturn ==
    pc = "done" => cli.closed /\ srv.closed

\* C1 amended: after leaving the loop through one of the four break
\* branches the client side channel is closed; forward() itself closes the
\* server side channel only in the client-closed branch, where it is closed
\* afterwards; when the loop ends because running is false forward() has
\* sent nothing on the client side and only the exec request on the server
\* side.
C1_ClientClosedOnBreak ==
    pc = "done" =>
        /\ branch \in BreakBranches \cup {"stopped"}
        /\ branch \in BreakBranches => cli.closed
        /\ branch = "client_closed" => srv.closed
        /\ branch # "client_closed" => srv.msgs = <<EV_EXEC>>
        /\ branch = "stopped" => cli.msgs = <<>>

C1_Witness ==
    /\ pc = "done" /\ branch = "server_status"
    /\ cli.closed /\ ~srv.closed

\* C2: when forward() has returned after the server side reported its exit
\* status, every byte the server made available before that (the server
\* produces nothing afterwards) has been read from its primary and extended
\* stream.
C2_Drained ==
    (pc = "done" /\ branch = "server_status") =>
        srv.in_buf = <<>> /\ srv.in_err = <<>>

\* C3 as stated: on server exit status s with the client side channel not
\* closed, the client side gets exit status s, then EOF, eow@openssh.com,
\* CLOSE and the detach, and the loop is left without an exception,
\* whatever else is ready in that iteration.
C3_StatusThenFullTeardown ==
    [][(StatusStep /\ srv.status_ready /\ ~cli.closed) =>
          /\ pc' = "done" /\ branch' = "server_status"
          /\ Emitted(cli, cli') = <<MSG_EXIT(srv.status), MSG_EOF, MSG_EOW,
                                    MSG_CLOSE, EV_UNLINK, EV_SUPER>>]_vars

\* C3 amended: as stated, except that EOF and eow@openssh.com are sent only
\* when no EOF has been received from the client; after an EOF from the
\* client the teardown is CLOSE and the detach alone.
C3_StatusThenTeardown ==
    [][(StatusStep /\ srv.status_ready /\ ~cli.closed) =>
          /\ pc' = "done" /\ branch' = "server_status"
          /\ cli'.closed /\ srv' = srv
          /\ Emitted(cli, cli') =
                <<MSG_EXIT(srv.status)>>
                \o (IF cli.eof_received THEN <<>> ELSE <<MSG_EOF, MSG_EOW>>)
                \o <<MSG_CLOSE, EV_UNLINK, EV_SUPER>>]_vars

C3_Witness ==
    /\ pc = "done" /\ branch = "server_status"
    /\ cli.status_ready /\ srv.closed /\ srv.status = 1
    /\ cli.msgs = <<MSG_EXIT(1), MSG_EOF, MSG_EOW, MSG_CLOSE, EV_UNLINK,
                    EV_SUPER>>

\* C4 as stated: when the client side is seen closed and neither channel
\* has an exit status, forward() leaves the server side channel as it is,
\* sends no exit status and leaves the loop.
C4_OnlyClientTornDown ==
    [][(StatusStep /\ ~srv.status_ready /\ ~cli.status_ready /\ _closed(cli)) =>
          /\ pc' = "done"
          /\ srv' = srv
          /\ NoExit(Emitted(cli, cli'))]_vars

\* C4 amended: in that case forward() closes the server side channel with
\* close() and applies close_session to the client side channel; no exit
\* status is sent to either channel and the loop is left.
C4_ServerClosedToo ==
    [][(StatusStep /\ ~srv.status_ready /\ ~cli.status_ready /\ _closed(cli)) =>
          /\ pc' = "done" /\ branch' = "client_closed"
          /\ srv'.closed
          /\ Emitted(srv, srv') = IF srv.closed THEN <<>> ELSE <<EV_CLOSE>>
          /\ cli'.closed
          /\ NoExit(Emitted(cli, cli')) /\ NoExit(Emitted(srv, srv'))]_vars

C4_Witness ==
    /\ pc = "done" /\ branch = "client_closed"
    /\ ~srv.status_ready /\ ~cli.status_ready
    /\ srv.msgs = <<EV_EXEC, EV_CLOSE>>

\* C5: while forward() has not raised, every byte it has read from a
\* stream has been accepted by the opposite channel, in order.
C5_NoSilentLoss ==
    pc # "raised" =>
        /\ srv.out = UpTo(cli.made_in - Len(cli.in_buf))
        /\ srv.out_err = UpTo(cli.made_err - Len(cli.in_err))
        /\ cli.out = UpTo(srv.made_in - Len(srv.in_buf))
        /\ cli.out_err = UpTo(srv.made_err - Len(srv.in_err))

\* =========================================================== SpecSend
\* sendall applied once to a buffer, a destination and a send primitive
Bytes == {0, 1}
Buffers == UNION {[1..n -> Bytes] : n \in 0..MaxLen}

InitSend ==
    /\ scp_command = CmdSink
    /\ has_channel = TRUE
    /\ running = TRUE
    /\ pc = "start"
    /\ branch = "none"
    /\ cli = NewChannel
    /\ srv = NewChannel
    /\ fwd = NewForwarder /\ last = NoCall /\ drv = DrvIdle
    /\ sa_in \in [data : Buffers, ready : BOOLEAN,
                  oracle : Oracles(MaxLen, MaxAccept)]
    /\ sa_out = SendNone
    /\ cs_calls = [c \in {"cli", "srv"} |-> 0]

CallSendall ==
    /\ sa_out = SendNone
    /\ sa_out' = sendall(sa_in.ready, sa_in.data, sa_in.oracle)
    /\ UNCHANGED <<scp_command, has_channel, running, pc, branch, cli, srv,
                   fwd, last, drv, sa_in, cs_calls>>

NextSend == CallSendall

SpecSend == InitSend /\ [][NextSend]_vars

Returned == sa_out # SendNone
NumCalls == Len(sa_out.calls)
ZeroCall == \E i \in 1..NumCalls : sa_out.calls[i].n = 0

\* the primitive takes k bytes in every call (fewer when fewer are left)
TakesK(k) == \A i \in 1..MaxLen : sa_in.oracle[i] = k

\* C6: non-empty buffer of length n, destination without exit status,
\* primitive taking k >= 1 bytes per call: sendall returns n after exactly
\* ceil(n/k) calls, the i-th call gets the suffix after the first (i-1)*k
\* bytes, and what the calls took is the buffer.
C6_SendsWholeBuffer ==
    \A k \in 1..MaxAccept :
        (Returned /\ sa_in.data # <<>> /\ ~sa_in.ready /\ TakesK(k)) =>
            LET n == Len(sa_in.data)
            IN  /\ sa_out.ret = n
                /\ NumCalls = (n + k - 1) \div k
                /\ \A i \in 1..NumCalls :
                      /\ sa_out.calls[i].arg =
                            SubSeq(sa_in.data, (i - 1) * k + 1, n)
                      /\ sa_out.calls[i].n = Min(k, n - (i - 1) * k)
                /\ Accepted(sa_out.calls) = sa_in.data

C6_Witness ==
    /\ Returned /\ ~sa_in.ready /\ TakesK(3)
    /\ sa_in.data = <<0, 1, 1, 0>>
    /\ sa_out.ret = 4 /\ NumCalls = 2

\* C7: a call of the primitive that returns 0 is the last call, and sendall
\* then returns 0; a primitive returning 0 at once is called exactly once.
C7_StopsAtZero ==
    Returned =>
        /\ \A i \in 1..NumCalls :
              sa_out.calls[i].n = 0 => (i = NumCalls /\ sa_out.ret = 0)
        /\ (sa_in.data # <<>> /\ ~sa_in.ready /\ sa_in.oracle[1] = 0) =>
              (NumCalls = 1 /\ sa_out.ret = 0)

C7_Witness ==
    /\ Returned /\ Len(sa_in.data) = MaxLen
    /\ sa_in.oracle[1] = 0 /\ sa_in.oracle[2] > 0
    /\ NumCalls = 1 /\ sa_out.ret = 0

\* C8 as stated: sendall returns the number of bytes the primitive took in
\* total, whatever the primitive did.
C8_ReturnsBytesTaken ==
    Returned => sa_out.ret = Len(Accepted(sa_out.calls))

\* C8 amended: sendall returns the number of bytes the primitive took in
\* total when every call took something (it is then the length of the
\* buffer); once a call returns 0 sendall returns 0, whatever earlier calls
\* took.
C8_ReturnsAllOrZero ==
    Returned =>
        /\ ~ZeroCall => /\ sa_out.ret = Len(Accepted(sa_out.calls))
                        /\ NumCalls > 0 => sa_out.ret = Len(sa_in.data)
        /\ ZeroCall => sa_out.ret = 0

C8_Witness ==
    /\ Returned /\ ZeroCall
    /\ Len(Accepted(sa_out.calls)) = 2
    /\ sa_out.ret = 0

\* C9: with an empty buffer or a destination that reports exit status,
\* sendall returns 0 and the primitive is not called.
C9_NothingSent ==
    (Returned /\ (sa_in.data = <<>> \/ sa_in.ready)) =>
        (sa_out.ret = 0 /\ sa_out.calls = <<>>)

C9_Witness ==
    /\ Returned /\ sa_in.ready /\ Len(sa_in.data) = 2
    /\ \A i \in 1..MaxLen : sa_in.oracle[i] > 0
    /\ sa_out.ret = 0 /\ sa_out.calls = <<>>

\* ========================================================== SpecClose
\* close_session called by the forwarder on either channel, any number of
\* times, while the peers send EOF and close
Channels == {"cli", "srv"}
Chan(c) == IF c = "cli" THEN cli ELSE srv

InitClose ==
    /\ scp_command = CmdSink
    /\ has_channel = TRUE
    /\ running = TRUE
    /\ pc = "start"
    /\ branch = "none"
    /\ \E c \in BOOLEAN, e \in BOOLEAN :
          cli = [NewChannel EXCEPT !.closed = c, !.eof_received = e]
    /\ \E c \in BOOLEAN, e \in BOOLEAN :
          srv = [NewChannel EXCEPT !.closed = c, !.eof_received = e]
    /\ sa_in = SendIdle
    /\ fwd = NewForwarder /\ last = NoCall /\ drv = DrvIdle
    /\ sa_out = SendNone
    /\ cs_calls = [c \in Channels |-> 0]

CloseFrame == UNCHANGED <<scp_command, has_channel, running, pc, branch,
                          fwd, last, drv, sa_in, sa_out>>

CloseClient ==
    /\ cs_calls["cli"] < MaxCalls
    /\ cli' = close_session(cli)
    /\ cs_calls' = [cs_calls EXCEPT !["cli"] = @ + 1]
    /\ UNCHANGED srv /\ CloseFrame

CloseServer ==
    /\ cs_calls["srv"] < MaxCalls
    /\ srv' = close_session(srv)
    /\ cs_calls' = [cs_calls EXCEPT !["srv"] = @ + 1]
    /\ UNCHANGED cli /\ CloseFrame

\* EOF arrives from the peer of an open channel
PeerEOF ==
    \E c \in Channels :
        /\ ~Chan(c).closed /\ ~Chan(c).eof_received
        /\ IF c = "cli"
           THEN cli' = [cli EXCEPT !.eof_received = TRUE] /\ UNCHANGED srv
           ELSE srv' = [srv EXCEPT !.eof_received = TRUE] /\ UNCHANGED cli
        /\ UNCHANGED cs_calls /\ CloseFrame

\* CLOSE arrives from the peer of an open channel
PeerClose ==
    \E c \in Channels :
        /\ ~Chan(c).closed
        /\ IF c = "cli"
           THEN cli' = [cli EXCEPT !.closed = TRUE] /\ UNCHANGED srv
           ELSE srv' = [srv EXCEPT !.closed = TRUE] /\ UNCHANGED cli
        /\ UNCHANGED cs_calls /\ CloseFrame

NextClose == CloseClient \/ CloseServer \/ PeerEOF \/ PeerClose

SpecClose == InitClose /\ [][NextClose]_vars

RECURSIVE Count(_, _)
Count(m, ms) ==
    IF ms = <<>> THEN 0
    ELSE (IF Head(ms) = m THEN 1 ELSE 0) + Count(m, Tail(ms))

\* C10: close_session on a closed channel changes nothing: no message, no
\* detach, no call of the generic close; a call that follows a complete
\* close_session on the same channel changes nothing either, and no channel
\* ever has more than one CLOSE sent.
C10_CloseIdempotent ==
    /\ [](\A c \in Channels : Count(MSG_CLOSE, Chan(c).msgs) <= 1)
    /\ [][/\ (cs_calls'["cli"] > cs_calls["cli"]
                 /\ (cli.closed \/ cs_calls["cli"] > 0)) => cli' = cli
          /\ (cs_calls'["srv"] > cs_calls["srv"]
                 /\ (srv.closed \/ cs_calls["srv"] > 0)) => srv' = srv]_vars

C10_Witness ==
    /\ cs_calls["cli"] = 2
    /\ cli.msgs = <<MSG_EOF, MSG_EOW, MSG_CLOSE, EV_UNLINK, EV_SUPER>>

\* a close_session call on channel c has been made in this step
CloseCall(c) == cs_calls'[c] > cs_calls[c]

\* position of the first m in ms (0 when absent)
RECURSIVE IndexOf(_, _)
IndexOf(m, ms) ==
    IF ms = <<>> THEN 0
    ELSE IF Head(ms) = m THEN 1
    ELSE IF IndexOf(m, Tail(ms)) = 0 THEN 0
    ELSE 1 + IndexOf(m, Tail(ms))

\* C11: close_session on a channel that is not closed sends EOF and then the
\* eow@openssh.com request (want-reply false) when no EOF has been received,
\* nothing of the two otherwise, then CLOSE exactly once as the last
\* message; the detach comes after CLOSE and before the generic close.
C11_CloseOrder ==
    [][/\ (CloseCall("cli") /\ ~cli.closed) =>
              LET e == Emitted(cli, cli')
              IN  /\ e = (IF cli.eof_received THEN <<>>
                          ELSE <<MSG_EOF, MSG_EOW>>)
                         \o <<MSG_CLOSE, EV_UNLINK, EV_SUPER>>
                  /\ Count(MSG_CLOSE, e) = 1
                  /\ IndexOf(MSG_CLOSE, e) < IndexOf(EV_UNLINK, e)
                  /\ IndexOf(EV_UNLINK, e) < IndexOf(EV_SUPER, e)
                  /\ \A i \in 1..Len(e) :
                        e[i].request = "eow@openssh.com" =>
                            (e[i].type = "CHANNEL_REQUEST" /\ ~e[i].want_reply)
       /\ (CloseCall("srv") /\ ~srv.closed) =>
              LET e == Emitted(srv, srv')
              IN  /\ e = (IF srv.eof_received THEN <<>>
                          ELSE <<MSG_EOF, MSG_EOW>>)
                         \o <<MSG_CLOSE, EV_UNLINK, EV_SUPER>>
                  /\ Count(MSG_CLOSE, e) = 1
                  /\ IndexOf(MSG_CLOSE, e) < IndexOf(EV_UNLINK, e)
                  /\ IndexOf(EV_UNLINK, e) < IndexOf(EV_SUPER, e)
                  /\ \A i \in 1..Len(e) :
                        e[i].request = "eow@openssh.com" =>
                            (e[i].type = "CHANNEL_REQUEST" /\ ~e[i].want_reply)
      ]_vars

C11_Witness ==
    /\ cs_calls["srv"] = 1
    /\ srv.eof_received
    /\ srv.msgs = <<MSG_CLOSE, EV_UNLINK, EV_SUPER>>

\* ============================================================ SpecScp
\* SCPForwarder.handle_traffic called with any chunk from either side
Line(cmd, mode, sep, size, name) ==
    <<cmd>> \o mode \o <<sep>> \o size \o <<sep>> \o name \o <<LF>>

LineCmds == {"C", "D"}
LineModes == {<<"0", "6", "4", "4">>, <<"0", "7", "5", "5">>}
LineSizes == {<<"0">>, <<"1", "3">>}
LineNames == {<<"a">>, <<"a", " ", "b">>}
GoodLines ==
    {Line(c, m, " ", z, f) :
        c \in LineCmds, m \in LineModes, z \in LineSizes, f \in LineNames}

ChunkE == <<"E", LF>>
ChunkT == <<"T", "1", " ", "0", " ", "1", " ", "0", LF>>
ChunkX == <<"X", " ", "g", LF>>
ChunkAck == <<"NUL">>
ChunkBinary == <<"a", "xFF">>
\* lines the pattern accepts although they are not plain control lines:
\* tab or newline as separator, bytes after the newline
OddLines ==
    {Line("C", <<"0", "6", "4", "4">>, "\t", <<"7">>, <<"a">>),
     Line("C", <<"0", "6", "4", "4">>, LF, <<"7">>, <<"a">>),
     Line("C", <<"0", "6", "4", "4">>, " ", <<"0", "9">>, <<>>) \o <<"z">>}
\* chunks that are no C or D line: E, T, garbage, an ack, payload, a bad
\* mode, a missing newline, a missing size, a lower-case letter, and bytes
\* that are not UTF-8
ChunkPayload == <<"a", "b">>
TextChunks ==
    {ChunkE, ChunkT, ChunkX, ChunkAck, ChunkPayload,
     Line("C", <<"0", "6", "4", "8">>, " ", <<"1">>, <<"a">>),
     <<"C", "0", "6", "4", "4", " ", "1", " ", "a">>,
     <<"C", "0", "6", "4", "4", " ", "a", LF>>,
     <<"c", "0", "6", "4", "4", " ", "1", " ", "a", LF>>}
OtherChunks == TextChunks \cup {ChunkBinary}
Chunks == GoodLines \cup OddLines \cup OtherChunks

\* session.scp_command values for the state machine
CmdShort == <<"s", "c">>
ScpCommands == {CmdSink, CmdOther, CmdShort}

InitScp ==
    /\ scp_command \in ScpCommands
    /\ has_channel = TRUE
    /\ running = TRUE
    /\ pc = "start"
    /\ branch = "none"
    /\ cli = NewChannel
    /\ srv = NewChannel
    /\ sa_in = SendIdle
    /\ sa_out = SendNone
    /\ cs_calls = [c \in {"cli", "srv"} |-> 0]
    /\ fwd = NewForwarder /\ last = NoCall /\ drv = DrvIdle

\* forward() hands one chunk to the hook (lines 57 and 61); an exception
\* leaves forward(), so no call follows one
CallHandleTraffic ==
    /\ ~last.raised
    /\ \E traffic \in Chunks, isclient \in BOOLEAN :
        LET r == SCP_handle_traffic(scp_command, fwd, traffic, isclient)
        IN  /\ fwd' = r.fwd
            /\ last' = [traffic |-> traffic, isclient |-> isclient,
                        out |-> r.out, raised |-> r.raised, hook |-> r.hook,
                        n |-> 1 - last.n]
    /\ UNCHANGED <<scp_command, has_channel, running, pc, branch, cli, srv,
                   sa_in, sa_out, cs_calls, drv>>

NextScp == CallHandleTraffic

SpecScp == InitScp /\ [][NextScp]_vars

IsScp == startswith(scp_command, <<"s", "c", "p">>)
\* a handle_traffic call has been made in this step
Called == last'.n # last.n

\* the three conditions of the state machine
AwaitingResponse(f) == f.await_response
AwaitingLine(f) ==
    ~f.await_response /\ f.bytes_remaining = 0 /\ ~f.got_c_command
Streaming(f) ==
    ~f.await_response /\ (f.bytes_remaining # 0 \/ f.got_c_command)

\* the number a size text of LineSizes stands for
SizeValue(z) == IF z = <<"0">> THEN 0 ELSE 13

\* C12: when the session command does not start with scp, handle_traffic
\* returns every chunk of either direction unchanged and leaves every field
\* of the forwarder as it was.
C12_NonScpIdentity ==
    [][(Called /\ ~IsScp) =>
          /\ last'.out = last'.traffic /\ ~last'.raised
          /\ fwd' = fwd]_vars

C12_Witness ==
    /\ scp_command = CmdShort /\ last.n = 1
    /\ last.traffic = Line("C", <<"0", "6", "4", "4">>, " ", <<"1", "3">>, <<"a">>)
    /\ ~last.isclient
    /\ last.out = last.traffic /\ fwd = NewForwarder

\* C13: in an scp session a C or D line parsed by handle_command sets
\* file_command, file_mode and file_name from the line and file_size and
\* bytes_remaining to its size, comes back unmodified, and the next chunk
\* goes to process_response and clears await_response; D differs from C in
\* file_command only.
C13_ParsesControlLine ==
    [][/\ \A c \in LineCmds, m \in LineModes, z \in LineSizes, f \in LineNames :
             (/\ Called /\ IsScp /\ last'.hook = "handle_command"
              /\ last'.traffic = Line(c, m, " ", z, f)) =>
                 /\ last'.out = last'.traffic /\ ~last'.raised
                 /\ fwd' = [fwd EXCEPT !.file_command = c,
                                       !.file_mode = m,
                                       !.file_size = SizeValue(z),
                                       !.bytes_remaining = SizeValue(z),
                                       !.file_name = f,
                                       !.got_c_command = TRUE,
                                       !.await_response = TRUE]
       /\ (Called /\ IsScp /\ fwd.await_response) =>
             /\ last'.hook = "process_response"
             /\ ~fwd'.await_response]_vars

C13_Witness ==
    /\ IsScp /\ last.hook = "handle_command"
    /\ last.traffic = Line("D", <<"0", "7", "5", "5">>, " ", <<"0">>, <<"a", " ", "b">>)
    /\ fwd.file_command = "D" /\ fwd.file_mode = <<"0", "7", "5", "5">>
    /\ fwd.file_size = 0 /\ fwd.file_name = <<"a", " ", "b">>
    /\ fwd.await_response

\* C14: a chunk that reaches handle_command and does not match the C/D
\* grammar comes back unmodified, changes no field and raises nothing.
C14_NoMatchIsHarmless ==
    [][(/\ Called /\ IsScp /\ last'.hook = "handle_command"
        /\ last'.traffic \in OtherChunks) =>
          /\ ~last'.raised
          /\ last'.out = last'.traffic
          /\ fwd' = fwd]_vars

\* C15: in an scp session exactly one of awaiting response, awaiting a
\* control line and streaming payload holds, and a chunk goes to
\* process_response (clearing await_response), to handle_command, or to
\* process_data (clearing got_c_command) accordingly.
\* what does hold for C14: the chunks of OtherChunks that are text
C14_TextNoMatchIsHarmless ==
    [][(/\ Called /\ IsScp /\ last'.hook = "handle_command"
        /\ last'.traffic \in TextChunks) =>
          /\ ~last'.raised
          /\ last'.out = last'.traffic
          /\ fwd' = fwd]_vars

C15_OneStateOneHook ==
    /\ [](IsScp =>
            Cardinality({k \in 1..3 :
                \/ k = 1 /\ AwaitingResponse(fwd)
                \/ k = 2 /\ AwaitingLine(fwd)
                \/ k = 3 /\ Streaming(fwd)}) = 1)
    /\ [][(Called /\ IsScp) =>
            /\ AwaitingResponse(fwd) =>
                  (last'.hook = "process_response" /\ ~fwd'.await_response)
            /\ AwaitingLine(fwd) => last'.hook = "handle_command"
            /\ Streaming(fwd) =>
                  (last'.hook = "process_data" /\ ~fwd'.got_c_command)]_vars

C15_Witness ==
    /\ IsScp /\ last.hook = "process_data"
    /\ Streaming(fwd) /\ ~fwd.got_c_command /\ fwd.bytes_remaining = 13

\* C16 as stated: a chunk relayed from the server side changes none of
\* await_response, bytes_remaining, got_c_command and the file fields.
C16_ServerChunksInert ==
    [][(Called /\ ~last'.isclient) => fwd' = fwd]_vars

\* C16 amended: handle_traffic does not look at isclient; a chunk relayed
\* from the server side drives the state machine like one from the client
\* side: it clears await_response, is parsed as a control line when one is
\* awaited, and clears got_c_command when it is taken as payload.
C16_ServerChunksDrive ==
    [][(Called /\ IsScp /\ ~last'.isclient) =>
          /\ AwaitingResponse(fwd) =>
                (last'.hook = "process_response" /\ ~fwd'.await_response)
          /\ (AwaitingLine(fwd) /\ last'.traffic \in GoodLines) =>
                /\ last'.hook = "handle_command"
                /\ fwd'.await_response /\ fwd'.got_c_command
                /\ fwd'.file_command = last'.traffic[1]
          /\ Streaming(fwd) =>
                (last'.hook = "process_data" /\ ~fwd'.got_c_command)]_vars

C16_Witness ==
    /\ IsScp /\ ~last.isclient /\ last.hook = "handle_command"
    /\ last.traffic \in GoodLines
    /\ fwd.got_c_command /\ fwd.await_response /\ fwd.file_command = "D"

\* C17 as stated: a chunk arriving with await_response and got_c_command
\* both false goes to handle_command, whatever bytes_remaining is.
C17_FlagAloneDecides ==
    [][(/\ Called /\ IsScp
        /\ ~fwd.await_response /\ ~fwd.got_c_command) =>
          last'.hook = "handle_command"]_vars

\* C17 amended: bytes_remaining is assigned by handle_command only and never
\* decremented; a chunk arriving with await_response and got_c_command both
\* false goes to handle_command exactly when bytes_remaining is 0, so once a
\* control line with a non-zero size has been parsed no later chunk reaches
\* handle_command.
C17_RemainingBlocksParsing ==
    [][(Called /\ IsScp) =>
          /\ last'.hook # "handle_command" =>
                fwd'.bytes_remaining = fwd.bytes_remaining
          /\ (~fwd.await_response /\ ~fwd.got_c_command) =>
                (last'.hook = "handle_command" <=> fwd.bytes_remaining = 0)
          /\ fwd.bytes_remaining # 0 =>
                /\ last'.hook # "handle_command"
                /\ fwd'.bytes_remaining = fwd.bytes_remaining]_vars

C17_Witness ==
    /\ IsScp /\ ~fwd.await_response /\ ~fwd.got_c_command
    /\ fwd.bytes_remaining = 13
    /\ last.hook = "process_data" /\ last.traffic \in GoodLines

\* =========================================================== SpecProto
\* An scp upload in protocol order: the client sends a control line, the
\* server acknowledges it with one chunk, the client sends the content of a
\* file of non-zero size in one or more chunks, the server acknowledges it,
\* and the client goes on with the next control line.
InitProto ==
    /\ scp_command = CmdSink
    /\ has_channel = TRUE
    /\ running = TRUE
    /\ pc = "start"
    /\ branch = "none"
    /\ cli = NewChannel
    /\ srv = NewChannel
    /\ sa_in = SendIdle
    /\ sa_out = SendNone
    /\ cs_calls = [c \in {"cli", "srv"} |-> 0]
    /\ fwd = NewForwarder /\ last = NoCall
    /\ drv = [DrvIdle EXCEPT !.phase = "line"]

ProtoFrame == UNCHANGED <<scp_command, has_channel, running, pc, branch,
                          cli, srv, sa_in, sa_out, cs_calls>>

\* forward() hands the chunk to handle_traffic (lines 57 and 61)
Relayed(traffic, isclient) ==
    LET r == SCP_handle_traffic(scp_command, fwd, traffic, isclient)
    IN  /\ fwd' = r.fwd
        /\ last' = [traffic |-> traffic, isclient |-> isclient,
                    out |-> r.out, raised |-> r.raised, hook |-> r.hook,
                    n |-> 1 - last.n]

ClientSendsLine ==
    /\ drv.phase = "line" /\ drv.records < MaxRecords /\ ~last.raised
    /\ \E c \in LineCmds, m \in LineModes, z \in LineSizes, f \in LineNames :
        /\ Relayed(Line(c, m, " ", z, f), TRUE)
        /\ drv' = [drv EXCEPT !.phase = "ack", !.records = @ + 1,
                              !.payload = (c = "C" /\ SizeValue(z) > 0)]
    /\ ProtoFrame

ServerAcksLine ==
    /\ drv.phase = "ack" /\ ~last.raised
    /\ Relayed(ChunkAck, FALSE)
    /\ drv' = [drv EXCEPT !.phase = IF drv.payload THEN "payload" ELSE "line",
                          !.chunks = 0]
    /\ ProtoFrame

ClientSendsPayload ==
    /\ drv.phase = "payload" /\ drv.chunks < MaxPayloadChunks /\ ~last.raised
    /\ \E traffic \in {ChunkPayload, ChunkBinary} : Relayed(traffic, TRUE)
    /\ drv' = [drv EXCEPT !.chunks = @ + 1]
    /\ ProtoFrame

ServerAcksPayload ==
    /\ drv.phase = "payload" /\ drv.chunks >= 1 /\ ~last.raised
    /\ Relayed(ChunkAck, FALSE)
    /\ drv' = [drv EXCEPT !.phase = "line", !.chunks = 0]
    /\ ProtoFrame

NextProto ==
    \/ ClientSendsLine \/ ServerAcksLine
    \/ ClientSendsPayload \/ ServerAcksPayload

SpecProto == InitProto /\ [][NextProto]_vars

\* C18: in a transfer in protocol order every control line, the first and
\* every later one, has gone to handle_command and has set file_command,
\* file_size and file_name.
C18_EveryLineParsed ==
    \A c \in LineCmds, m \in LineModes, z \in LineSizes, f \in LineNames :
        last.traffic = Line(c, m, " ", z, f) =>
            /\ last.hook = "handle_command"
            /\ fwd.file_command = c
            /\ fwd.file_size = SizeValue(z)
            /\ fwd.file_name = f

\* what does hold for C18: the first control line of a transfer is parsed
C18_FirstLineParsed ==
    (drv.records = 1 /\ last.traffic \in GoodLines) =>
        (last.hook = "handle_command" /\ fwd.file_command = last.traffic[1])

\* ============================================================ SpecFair
\* forward() runs in a thread of its own, so it always takes its next step;
\* the peers and the owner of the session are free to do nothing.
Forward == Start \/ WaitRemote \/ Sleep \/ LoopTop \/ Relay \/ CheckStatus

SpecFair == Init /\ [][Next]_vars /\ WF_vars(Forward)

\* C19: once session.running is false forward() returns, whatever the
\* command and whether or not a channel ever closes or reports exit status.
C19_RunningCancels ==
    (~running) ~> (pc \in {"done", "raised"})

\* what does hold for C19: outside the wait of a remote to remote copy a
\* cleared session.running ends forward()
C19_LoopCancels ==
    (~running /\ pc \in {"top", "relay", "status"})
        ~> (pc \in {"done", "raised"})

\* nothing has been read from or written to a stream of either channel
NothingRelayed ==
    /\ cli.out = <<>> /\ cli.out_err = <<>>
    /\ srv.out = <<>> /\ srv.out_err = <<>>
    /\ cli.in_buf = UpTo(cli.made_in) /\ cli.in_err = UpTo(cli.made_err)
    /\ srv.in_buf = UpTo(srv.made_in) /\ srv.in_err = UpTo(srv.made_err)

Waiting == pc \in {"start", "wait", "sleep"}

=============================================================================
